---- MODULE Spec2Model ----
(***************************************************************************)
(* Model of the kev.in REST backend: the user table and the exercise       *)
(* table, the handlers of /user and /exercise and the two _authorize       *)
(* decision functions.  One request is handled at a time: a handler action *)
(* takes the server from idle to a recorded (request, response) pair and   *)
(* RequestDone discards the request context again.                         *)
(*                                                                         *)
(* Python values are modelled as follows.  None / an absent argument is    *)
(* the empty tuple and a present value v is <<v>>.  A call that can raise  *)
(* returns the name of the exception instead of a value; "" means that no  *)
(* exception was raised.  An exception that no handler catches leaves the  *)
(* request with response.exc set (an uncaught fault).                      *)
(***************************************************************************)
EXTENDS Integers, FiniteSets, Sequences, TLC

VARIABLES users, exercises, request, response, before, posts

vars == <<users, exercises, request, response, before, posts>>

-----------------------------------------------------------------------------
(* Bounds of the model *)

MaxUserId == 2
MaxExerciseId == 2
MAX_ITEMS_RETURNED == 1

UserIds == 1..MaxUserId
ExerciseIds == 1..MaxExerciseId

None == <<>>
Some(v) == <<v>>
Val(o) == o[1]

-----------------------------------------------------------------------------
(* backend/database/models.py *)

\* class UserRole(enum.IntEnum): the members as the source spells them.  The
\* routes name the members SAdmin, Admin and User; a name the class does not
\* define raises AttributeError (HasMember).
UserRole == [SAdimn |-> 1, Admin |-> 2, User |-> 3]

\* class ExerciseType(enum.IntEnum)
ExerciseType ==
    [GapTextExercise |-> 1, SyntaxExercise |-> 2, ParsonsPuzzleExercise |-> 3,
     FindTheBugExercise |-> 4, DocumentationExercise |-> 5, OutputExercise |-> 6,
     ProgrammingExercise |-> 7]

EnumValues(enum) == {enum[n] : n \in DOMAIN enum}

\* Enum.__getattr__: UserRole.<name> is the member's value, or AttributeError
\* when the class has no member of that name
HasMember(enum, name) == name \in DOMAIN enum

\* Enum.__call__: UserRole(int(x)) is the member with that value, or ValueError
IsEnumValue(enum, x) == x \in EnumValues(enum)

\* member.name
MemberName(enum, v) == CHOOSE n \in DOMAIN enum : enum[n] = v

\* the columns of UserModel
UserColumns == {"user_id", "user_name", "user_pass", "user_mail", "user_role"}

\* the columns of the exercise table the handlers read and write
ExerciseColumns ==
    {"exercise_id", "exercise_title", "exercise_description", "exercise_type",
     "exercise_content"}

\* hashlib.sha256(bytes(p)).hexdigest(): a digest is never the raw secret
Plain(s) == <<"plain", s>>
sha256(p) == <<"sha256", p[2]>>

\* user_id is the primary key and user_mail is unique
UserTableOk(U) ==
    \A r, s \in U : (r.user_id = s.user_id \/ r.user_mail = s.user_mail) => r = s

\* exercise_id is the primary key and exercise_title is unique
ExerciseTableOk(E) ==
    \A r, s \in E :
        (r.exercise_id = s.exercise_id \/ r.exercise_title = s.exercise_title) => r = s

Max(S) == CHOOSE x \in S : \A y \in S : y <= x

\* the integer primary key the table assigns to an inserted row
NextUserId(U) == IF U = {} THEN 1 ELSE Max({r.user_id : r \in U}) + 1
NextExerciseId(E) == IF E = {} THEN 1 ELSE Max({r.exercise_id : r \in E}) + 1

-----------------------------------------------------------------------------
(* Values of the model's requests *)

Name(i) == IF i = 1 THEN "alice"
           ELSE IF i = 2 THEN "bob"
           ELSE IF i = 3 THEN "carol" ELSE "dave"
Names == {Name(i) : i \in 1..(MaxUserId + 1)}
Mail(i) == IF i = 1 THEN "a@example.com"
           ELSE IF i = 2 THEN "b@example.com"
           ELSE IF i = 3 THEN "c@example.com" ELSE "d@example.com"
Mails == {Mail(i) : i \in 1..(MaxUserId + 1)}
Passwords == {Plain("secret")}
Title(i) == IF i = 1 THEN "loops"
            ELSE IF i = 2 THEN "lists"
            ELSE IF i = 3 THEN "dicts" ELSE "sets"
Titles == {Title(i) : i \in 1..(MaxExerciseId + 1)}

\* the token cookie: a JWT is malformed, signed with another secret, expired,
\* or valid; the last two carry the user_id claim they were issued with
Token(kind, uid) == [kind |-> kind, user_id |-> uid]
Tokens ==
    {Token("malformed", 0), Token("wrong_signature", 1), Token("expired", 1)}
        \cup {Token("valid", i) : i \in UserIds}
Cookies == {None} \cup {Some(t) : t \in Tokens}

NoRequest == [resource |-> "", method |-> ""]
NoResponse == [status |-> 0]

\* make_response(jsonify(...), status); authorize is what _authorize returned
\* to the handler ("" when the handler did not get to call it)
Resp(status, message, authorize, data) ==
    [status |-> status, message |-> message, exc |-> "", authorize |-> authorize,
     data |-> data]

\* an exception that leaves the handler: the framework answers for it
Uncaught(exc, authorize) ==
    [status |-> 500, message |-> "", exc |-> exc, authorize |-> authorize,
     data |-> {}]

\* what a handler leaves behind: its response and the two tables
Outcome(resp, U, E) == [response |-> resp, users |-> U, exercises |-> E]

-----------------------------------------------------------------------------
(* Token codec: jwt.decode(token, config.JWT_SECRET, algorithms=["HS256"]) *)

\* the exception jwt.decode raises for the token ("" for none)
jwt_decode_exc(token) ==
    CASE token.kind = "malformed" -> "DecodeError"
      [] token.kind = "wrong_signature" -> "InvalidSignatureError"
      [] token.kind = "expired" -> "ExpiredSignatureError"
      [] OTHER -> ""

\* the claim set of a token that verifies
jwt_decode(token) == [user_id |-> token.user_id]

\* except jwt.exceptions.DecodeError: InvalidSignatureError derives from
\* DecodeError, ExpiredSignatureError does not
CaughtAsDecodeError(exc) == exc \in {"DecodeError", "InvalidSignatureError"}

\* selection.fetchone() of the select by user_id: the row, or None
fetchone_user(U, uid) ==
    LET rows == {r \in U : r.user_id = uid}
    IN IF rows = {} THEN None ELSE Some(CHOOSE r \in rows : TRUE)

-----------------------------------------------------------------------------
(* backend/lib/routes/user.py *)

\* UserResource._authorize(token, user_id=None, change_admin=False):
\* "True", "False", or the name of the exception that leaves the method
UserResource_authorize_row(row, user_id, change_admin) ==
    IF row = None
    THEN "TypeError"                       \* row["user_role"] on None
    ELSE IF ~HasMember(UserRole, "SAdmin")
    THEN "AttributeError"                  \* UserRole.SAdmin
    ELSE IF Val(row).user_role = UserRole["SAdmin"]
            \/ Val(row).user_role = UserRole["Admin"]
    THEN "True"
    ELSE IF user_id = None
    THEN "False"
    ELSE IF Val(user_id) = Val(row).user_id /\ ~change_admin
    THEN "True"
    ELSE "False"

UserResource_authorize(token, user_id, change_admin, U) ==
    LET exc == jwt_decode_exc(token)
    IN IF CaughtAsDecodeError(exc) THEN "False"
       ELSE IF exc # "" THEN exc
       ELSE UserResource_authorize_row(fetchone_user(U, jwt_decode(token).user_id),
                             user_id, change_admin)

\* LIMIT n taken as LIMIT n + 1
FirstUsers_off_by_one(S, n) ==
    {r \in S : Cardinality({q \in S : q.user_id < r.user_id}) <= n}

\* the first n rows of a selection, in primary-key order
FirstUsers(S, n) == {r \in S : Cardinality({q \in S : q.user_id < r.user_id}) < n}

\* parser.parse_args() of GET: the defaults of the arguments that are absent
UserGetArgs(q) ==
    [user_id |-> IF q.user_id = None THEN 0 ELSE Val(q.user_id),
     user_name |-> IF q.user_name = None THEN "" ELSE Val(q.user_name),
     user_mail |-> IF q.user_mail = None THEN "" ELSE Val(q.user_mail),
     user_role |-> IF q.user_role = None THEN UserRole["User"] ELSE Val(q.user_role),
     user_offset |-> IF q.user_offset = None THEN 0 ELSE Val(q.user_offset),
     user_limit |-> IF q.user_limit = None THEN MAX_ITEMS_RETURNED
                    ELSE Val(q.user_limit)]

\* the selection of GET listed with every column of the row, user_pass included
UserGetSelection_all_columns(args, U) ==
    LET matching ==
            {r \in U :
                /\ IF args.user_id # 0 THEN r.user_id = args.user_id
                   ELSE r.user_id >= args.user_offset
                /\ args.user_name # "" => r.user_name = args.user_name
                /\ args.user_mail # "" => r.user_mail = args.user_mail
                /\ r.user_role = args.user_role}
    IN IF args.user_id # 0 THEN matching
       ELSE FirstUsers(matching, args.user_limit)

\* the rows the query of GET selects, as the response lists them
UserGetSelection(args, U) ==
    LET matching ==
            {r \in U :
                /\ IF args.user_id # 0 THEN r.user_id = args.user_id
                   ELSE r.user_id >= args.user_offset
                /\ args.user_name # "" => r.user_name = args.user_name
                /\ args.user_mail # "" => r.user_mail = args.user_mail
                /\ r.user_role = args.user_role}
        rows == IF args.user_id # 0 THEN matching
                ELSE FirstUsers(matching, args.user_limit)
    IN {[user_id |-> r.user_id, user_name |-> r.user_name,
         user_mail |-> r.user_mail,
         user_role |-> MemberName(UserRole, r.user_role)] : r \in rows}

\* UserResource.get from "check if the client has access" on
UserResource_get_access(cookies, args, U, E) ==
    LET a == UserResource_authorize(Val(cookies), Some(args.user_id), FALSE, U)
    IN IF a = "False"
       THEN Outcome(Resp(403, "No Access", a, {}), U, E)
       ELSE IF a # "True"
       THEN Outcome(Uncaught(a, a), U, E)
       ELSE Outcome(Resp(200, "", a, UserGetSelection(args, U)), U, E)

\* UserResource.get with the cookie check moved ahead of the range check
UserResource_get_cookie_first(cookies, q, U, E) ==
    IF q.user_role # None /\ ~IsEnumValue(UserRole, Val(q.user_role))
    THEN Outcome(Resp(400, "User Role is missing", "", {}), U, E)
    ELSE LET args == UserGetArgs(q)
         IN IF cookies = None
            THEN Outcome(Resp(401, "Login required", "", {}), U, E)
            ELSE IF args.user_limit \notin 0..MAX_ITEMS_RETURNED
            THEN Outcome(Resp(400, "Page limit not in range", "", {}), U, E)
            ELSE UserResource_get_access(cookies, args, U, E)

\* UserResource.get
UserResource_get(cookies, q, U, E) ==
    IF q.user_role # None /\ ~IsEnumValue(UserRole, Val(q.user_role))
    THEN Outcome(Resp(400, "User Role is missing", "", {}), U, E)
    ELSE LET args == UserGetArgs(q)
         IN IF args.user_limit \notin 0..MAX_ITEMS_RETURNED
            THEN Outcome(Resp(400, "Page limit not in range", "", {}), U, E)
            ELSE IF cookies = None
            THEN Outcome(Resp(401, "Login required", "", {}), U, E)
            ELSE UserResource_get_access(cookies, args, U, E)

\* UserResource.post from "load the user table" on: the duplicate check, the
\* insert and the re-select
UserResource_post_store(args, a, U, E) ==
    IF \E r \in U : r.user_name = args.user_name
    THEN Outcome(Resp(409, "A user with this name already exists", a, {}), U, E)
    ELSE IF \E r \in U : r.user_mail = args.user_mail
    THEN Outcome(Uncaught("IntegrityError", a), U, E)   \* user_mail is unique
    ELSE LET user == [user_id |-> NextUserId(U),
                      user_name |-> args.user_name,
                      user_pass |-> sha256(args.user_pass),
                      user_mail |-> args.user_mail,
                      user_role |-> args.user_role]
         IN Outcome(Resp(201, "The user was created successfully", a,
                         {[user_id |-> user.user_id, user_name |-> user.user_name,
                           user_mail |-> user.user_mail]}),
                    U \cup {user}, E)

\* UserResource.post without the test of the requested role: no cookie is asked
\* for and _authorize is not called, whatever role the account is to have
UserResource_post_ungated(cookies, q, U, E) ==
    IF \/ q.user_name = None \/ q.user_pass = None \/ q.user_mail = None
       \/ q.user_role = None
       \/ ~IsEnumValue(UserRole, Val(q.user_role))
    THEN Outcome(Resp(400, "argument is missing", "", {}), U, E)
    ELSE UserResource_post_store(
             [user_name |-> Val(q.user_name), user_pass |-> Val(q.user_pass),
              user_mail |-> Val(q.user_mail), user_role |-> Val(q.user_role)],
             "", U, E)

\* UserResource.post
UserResource_post(cookies, q, U, E) ==
    IF \/ q.user_name = None \/ q.user_pass = None \/ q.user_mail = None
       \/ q.user_role = None
       \/ ~IsEnumValue(UserRole, Val(q.user_role))
    THEN Outcome(Resp(400, "argument is missing", "", {}), U, E)
    ELSE LET args == [user_name |-> Val(q.user_name), user_pass |-> Val(q.user_pass),
                      user_mail |-> Val(q.user_mail), user_role |-> Val(q.user_role)]
         IN IF ~HasMember(UserRole, "SAdmin")
            THEN Outcome(Uncaught("AttributeError", ""), U, E)  \* UserRole.SAdmin
            ELSE IF args.user_role = UserRole["SAdmin"]
                    \/ args.user_role = UserRole["Admin"]
            THEN IF cookies = None
                 THEN Outcome(Resp(401, "Login required", "", {}), U, E)
                 ELSE LET a == UserResource_authorize(Val(cookies), None, TRUE, U)
                      IN IF a = "False"
                         THEN Outcome(Resp(403, "No Access", a, {}), U, E)
                         ELSE IF a # "True"
                         THEN Outcome(Uncaught(a, a), U, E)
                         ELSE UserResource_post_store(args, a, U, E)
            ELSE UserResource_post_store(args, "", U, E)

\* bool(x) of an argument value
Truthy(o) == o # None /\ Val(o) # FALSE

\* db_engine.update(user_table).where(user_id == id).values(values), commit:
\* every key of values is written, the ones parsed as None included
UserUpdate(values, id, U) ==
    LET rows == {r \in U : r.user_id = id}
        set(r, c) == IF c \in DOMAIN values
                     THEN (IF values[c] = None THEN None ELSE Val(values[c]))
                     ELSE r[c]
        new(r) == [c \in UserColumns |-> set(r, c)]
        written == {new(r) : r \in rows}
        U2 == (U \ rows) \cup written
        exc == IF ~(DOMAIN values \subseteq UserColumns) THEN "CompileError"
               ELSE IF rows = {} THEN ""
               ELSE IF \E c \in DOMAIN values : values[c] = None
               THEN "IntegrityError"             \* nullable=False
               ELSE IF ~UserTableOk(U2) THEN "IntegrityError"   \* unique
               ELSE ""
    IN [exc |-> exc, rowcount |-> Cardinality(rows),
        users |-> IF exc = "" THEN U2 ELSE U]

\* UserResource.put; args are the parsed arguments, keyed as the parser
\* declares them
UserResource_put(cookies, q, U, E) ==
    IF q.user_id = None
       \/ (q.user_role # None /\ ~IsEnumValue(UserRole, Val(q.user_role)))
    THEN Outcome(Resp(400, "argument is missing", "", {}), U, E)
    ELSE LET args == q
         IN IF cookies = None
            THEN Outcome(Resp(401, "Login required", "", {}), U, E)
            ELSE IF "user_admin" \notin DOMAIN args
            THEN Outcome(Uncaught("KeyError", ""), U, E)   \* args["user_admin"]
            ELSE LET a == UserResource_authorize(Val(cookies), args.user_id,
                                                 Truthy(args["user_admin"]), U)
                     values == [c \in DOMAIN args \ {"user_id"} |-> args[c]]
                     upd == UserUpdate(values, Val(args.user_id), U)
                 IN IF a = "False"
                    THEN Outcome(Resp(403, "No Access", a, {}), U, E)
                    ELSE IF a # "True"
                    THEN Outcome(Uncaught(a, a), U, E)
                    ELSE IF upd.exc # ""
                    THEN Outcome(Uncaught(upd.exc, a), U, E)
                    ELSE IF upd.rowcount = 0
                    THEN Outcome(Resp(404, "User does not exist", a, {}), U, E)
                    ELSE Outcome(Resp(200, "Successfully changed user", a, {}),
                                 upd.users, E)

\* UserResource.delete with the DELETE statement issued ahead of the cookie check
\* and of _authorize
UserResource_delete_before_access(cookies, q, U, E) ==
    IF q.user_id = None
    THEN Outcome(Resp(400, "ID of the user is missing", "", {}), U, E)
    ELSE LET rows == {r \in U : r.user_id = Val(q.user_id)}
             a == UserResource_authorize(Val(cookies), q.user_id, FALSE, U)
         IN IF cookies = None
            THEN Outcome(Resp(401, "Login required", "", {}), U \ rows, E)
            ELSE IF a = "False"
            THEN Outcome(Resp(403, "No Access", a, {}), U \ rows, E)
            ELSE IF a # "True"
            THEN Outcome(Uncaught(a, a), U \ rows, E)
            ELSE IF rows = {}
            THEN Outcome(Resp(404, "User does not exist", a, {}), U, E)
            ELSE Outcome(Resp(200, "Successfully deleted user", a, {}), U \ rows, E)

\* UserResource.delete
UserResource_delete(cookies, q, U, E) ==
    IF q.user_id = None
    THEN Outcome(Resp(400, "ID of the user is missing", "", {}), U, E)
    ELSE IF cookies = None
    THEN Outcome(Resp(401, "Login required", "", {}), U, E)
    ELSE LET a == UserResource_authorize(Val(cookies), q.user_id, FALSE, U)
             rows == {r \in U : r.user_id = Val(q.user_id)}
         IN IF a = "False"
            THEN Outcome(Resp(403, "No Access", a, {}), U, E)
            ELSE IF a # "True"
            THEN Outcome(Uncaught(a, a), U, E)
            ELSE IF rows = {}
            THEN Outcome(Resp(404, "User does not exist", a, {}), U, E)
            ELSE Outcome(Resp(200, "Successfully deleted user", a, {}), U \ rows, E)

-----------------------------------------------------------------------------
(* backend/lib/routes/exercise.py *)

\* ExerciseResource._authorize(token, readOnly)
ExerciseResource_authorize(token, readOnly, U) ==
    LET exc == jwt_decode_exc(token)
        row == fetchone_user(U, jwt_decode(token).user_id)
    IN IF CaughtAsDecodeError(exc) THEN "False"
       ELSE IF exc # "" THEN exc
       ELSE IF readOnly THEN "True"
       ELSE IF row = None THEN "TypeError"          \* row["user_admin"] on None
       ELSE IF "user_admin" \notin DOMAIN Val(row)
       THEN "NoSuchColumnError"                     \* the row has no such column
       ELSE IF Truthy(Some(Val(row)["user_admin"])) THEN "True" ELSE "False"

\* the first n rows of a selection, in primary-key order
FirstExercises(S, n) ==
    {r \in S : Cardinality({q \in S : q.exercise_id < r.exercise_id}) < n}

\* the rows the query of GET selects, cut to MAX_ITEMS_RETURNED
ExerciseGetSelection(args, E) ==
    LET matching ==
            {r \in E :
                /\ (args.exercise_id # None /\ Val(args.exercise_id) >= 1)
                      => r.exercise_id = Val(args.exercise_id)
                /\ (args.exercise_title # None /\ Val(args.exercise_title) # "")
                      => r.exercise_title = Val(args.exercise_title)
                /\ (args.exercise_description # None
                        /\ Val(args.exercise_description) # "")
                      => r.exercise_description = Val(args.exercise_description)
                /\ (args.exercise_type # None /\ Val(args.exercise_type) # 0)
                      => r.exercise_type = Val(args.exercise_type)
                /\ (args.exercise_content # None /\ Val(args.exercise_content) # 0)
                      => r.exercise_content = Val(args.exercise_content)}
    IN IF Cardinality(matching) > MAX_ITEMS_RETURNED
       THEN FirstExercises(matching, MAX_ITEMS_RETURNED)
       ELSE matching

\* the step every handler of /exercise starts with after parsing: the token
\* cookie and the access check; "" lets the handler go on
ExerciseGate(cookies, readOnly, U, E) ==
    IF cookies = None
    THEN Outcome(Resp(401, "Login required", "", {}), U, E)
    ELSE LET a == ExerciseResource_authorize(Val(cookies), readOnly, U)
         IN IF a = "False" THEN Outcome(Resp(403, "No Access", a, {}), U, E)
            ELSE IF a # "True" THEN Outcome(Uncaught(a, a), U, E)
            ELSE Outcome(Resp(0, "", a, {}), U, E)

\* ExerciseResource.get
ExerciseResource_get(cookies, q, U, E) ==
    LET gate == ExerciseGate(cookies, TRUE, U, E)
    IN IF gate.response.status # 0 THEN gate
       ELSE Outcome(Resp(200, "", "True", ExerciseGetSelection(q, E)), U, E)

\* the parameters of ExerciseModel.__init__ that have no default
ExerciseModelParams ==
    {"exercise_title", "exercise_description", "exercise_type", "exercise_content",
     "exercise_solution", "exercise_language"}

\* ExerciseResource.post
ExerciseResource_post(cookies, q, U, E) ==
    IF \/ q.exercise_title = None \/ q.exercise_description = None
       \/ q.exercise_type = None \/ q.exercise_content = None
       \/ ~IsEnumValue(ExerciseType, Val(q.exercise_type))
    THEN Outcome(Resp(400, "argument is missing", "", {}), U, E)
    ELSE LET gate == ExerciseGate(cookies, FALSE, U, E)
             args == [c \in DOMAIN q |-> Val(q[c])]
             exercise == [c \in ExerciseColumns |->
                            IF c = "exercise_id" THEN NextExerciseId(E) ELSE args[c]]
         IN IF gate.response.status # 0 THEN gate
            ELSE IF \E r \in E : args.exercise_title # ""
                                   => r.exercise_title = args.exercise_title
            THEN Outcome(Resp(409, "An exercise with this title already exists",
                              "True", {}), U, E)
            ELSE IF ~(ExerciseModelParams \subseteq DOMAIN args)
            THEN Outcome(Uncaught("TypeError", "True"), U, E)  \* ExerciseModel(...)
            ELSE Outcome(Resp(201, "The exercise was created successfully", "True",
                              {[exercise_title |-> exercise.exercise_title,
                                exercise_id |-> exercise.exercise_id]}),
                         U, E \cup {exercise})

\* ExerciseResource.put
ExerciseResource_put(cookies, q, U, E) ==
    IF q.exercise_id = None
       \/ (q.exercise_content # None
              /\ ~IsEnumValue(ExerciseType, Val(q.exercise_content)))
    THEN Outcome(Resp(400, "argument is missing", "", {}), U, E)
    ELSE LET gate == ExerciseGate(cookies, FALSE, U, E)
             rows == {r \in E : r.exercise_id = Val(q.exercise_id)}
             new(r) == [c \in ExerciseColumns |->
                          IF c = "exercise_id" THEN r[c]
                          ELSE IF q[c] = None THEN None ELSE Val(q[c])]
             E2 == (E \ rows) \cup {new(r) : r \in rows}
         IN IF gate.response.status # 0 THEN gate
            ELSE IF rows = {}
            THEN Outcome(Resp(404, "Exercise does not exist", "True", {}), U, E)
            ELSE IF q.exercise_title = None \/ q.exercise_type = None
                    \/ ~ExerciseTableOk(E2)
            THEN Outcome(Uncaught("IntegrityError", "True"), U, E)
            ELSE Outcome(Resp(200, "Successfully changed exercise", "True", {}),
                         U, E2)

\* ExerciseResource.delete
ExerciseResource_delete(cookies, q, U, E) ==
    IF q.exercise_id = None
    THEN Outcome(Resp(400, "ID of the exercise is missing", "", {}), U, E)
    ELSE LET gate == ExerciseGate(cookies, FALSE, U, E)
             rows == {r \in E : r.exercise_id = Val(q.exercise_id)}
         IN IF gate.response.status # 0 THEN gate
            ELSE IF rows = {}
            THEN Outcome(Resp(404, "Exercise does not exist", "True", {}), U, E)
            ELSE Outcome(Resp(200, "Successfully deleted exercise", "True", {}),
                         U, E \ rows)

-----------------------------------------------------------------------------
(* The requests the model sends.  An exercise's content is an opaque number *)
(* (PUT declares exercise_content with type=ExerciseType, so a content is  *)
(* accepted there exactly when it is a member value).                      *)

Opt(S) == {None} \cup {Some(v) : v \in S}

RoleInputs == Opt({0} \cup EnumValues(UserRole))

UserGetQueries ==
    [user_id : Opt(UserIds), user_name : Opt({Name(1)}), user_mail : Opt({Mail(1)}),
     user_role : Opt({0, UserRole["Admin"], UserRole["User"]}), user_offset : {None},
     user_limit : Opt({-1, 1, MAX_ITEMS_RETURNED + 1})]

UserPostBodies ==
    [user_name : Opt({Name(1), Name(MaxUserId + 1)}), user_pass : {Some(p) : p \in Passwords},
     user_mail : {Some(Mail(1)), Some(Mail(MaxUserId + 1))}, user_role : RoleInputs]

UserPutBodies ==
    [user_id : Opt(UserIds), user_name : Opt({Name(MaxUserId + 1)}),
     user_pass : Opt(Passwords), user_mail : Opt({Mail(1)}),
     user_role : Opt({0, UserRole["Admin"], UserRole["User"]})]

UserDeleteBodies == [user_id : Opt(UserIds)]

ExerciseGetQueries ==
    [exercise_id : Opt(ExerciseIds), exercise_title : Opt({Title(1)}),
     exercise_description : {None}, exercise_type : {None},
     exercise_content : {None}]

ExercisePostBodies ==
    [exercise_title : Opt({Title(1), Title(MaxExerciseId + 1)}),
     exercise_description : {Some("practice")}, exercise_type : Opt({0, 1}),
     exercise_content : {Some(1)}]

ExercisePutBodies ==
    [exercise_id : Opt(ExerciseIds), exercise_title : Opt({Title(MaxExerciseId + 1)}),
     exercise_description : {None}, exercise_type : {None},
     exercise_content : Opt({0, 1})]

ExerciseDeleteBodies == [exercise_id : Opt(ExerciseIds)]

-----------------------------------------------------------------------------
(* The state machine *)

\* a user table as the schema allows it: user i, when present, has the name
\* Name(i), the mail Mail(i), any role and a hashed credential
InitialUserTables ==
    {{[user_id |-> i, user_name |-> Name(i),
       user_pass |-> sha256(Val(c[i]).user_pass), user_mail |-> Mail(i),
       user_role |-> Val(c[i]).user_role] : i \in {j \in UserIds : c[j] # None}} :
        c \in [UserIds -> Opt([user_pass : Passwords,
                               user_role : EnumValues(UserRole)])]}

\* exercise i, when present, has the title Title(i)
InitialExerciseTables ==
    {{[exercise_id |-> i, exercise_title |-> Title(i),
       exercise_description |-> "practice", exercise_type |-> 1,
       exercise_content |-> 1] : i \in D} : D \in SUBSET ExerciseIds}

Snapshot(U, E) == [users |-> U, exercises |-> E]

\* no request is handled step by step
NoPosts == <<>>

Init ==
    /\ users \in InitialUserTables
    /\ exercises \in InitialExerciseTables
    /\ request = NoRequest
    /\ response = NoResponse
    /\ before = Snapshot(users, exercises)
    /\ posts = NoPosts

\* the server handles one request: the handler runs to its response
Handle(resource, method, cookies, q, out) ==
    /\ \A r \in out.users : r.user_id \in UserIds
    /\ \A r \in out.exercises : r.exercise_id \in ExerciseIds
    /\ request' = [resource |-> resource, method |-> method, cookies |-> cookies,
                   args |-> q]
    /\ response' = out.response
    /\ before' = Snapshot(users, exercises)
    /\ users' = out.users
    /\ exercises' = out.exercises
    /\ UNCHANGED posts

UserGet ==
    /\ request = NoRequest
    /\ \E c \in Cookies, q \in UserGetQueries :
          Handle("user", "GET", c, q,
                 UserResource_get(c, q, users, exercises))

UserPost ==
    /\ request = NoRequest
    /\ \E c \in Cookies, q \in UserPostBodies :
          Handle("user", "POST", c, q,
                 UserResource_post(c, q, users, exercises))

UserPut ==
    /\ request = NoRequest
    /\ \E c \in Cookies, q \in UserPutBodies :
          Handle("user", "PUT", c, q,
                 UserResource_put(c, q, users, exercises))

UserDelete ==
    /\ request = NoRequest
    /\ \E c \in Cookies, q \in UserDeleteBodies :
          Handle("user", "DELETE", c, q,
                 UserResource_delete(c, q, users, exercises))

ExerciseGet ==
    /\ request = NoRequest
    /\ \E c \in Cookies, q \in ExerciseGetQueries :
          Handle("exercise", "GET", c, q,
                 ExerciseResource_get(c, q, users, exercises))

ExercisePost ==
    /\ request = NoRequest
    /\ \E c \in Cookies, q \in ExercisePostBodies :
          Handle("exercise", "POST", c, q,
                 ExerciseResource_post(c, q, users, exercises))

ExercisePut ==
    /\ request = NoRequest
    /\ \E c \in Cookies, q \in ExercisePutBodies :
          Handle("exercise", "PUT", c, q,
                 ExerciseResource_put(c, q, users, exercises))

ExerciseDelete ==
    /\ request = NoRequest
    /\ \E c \in Cookies, q \in ExerciseDeleteBodies :
          Handle("exercise", "DELETE", c, q,
                 ExerciseResource_delete(c, q, users, exercises))

\* the response is sent and the request context is discarded
RequestDone ==
    /\ request # NoRequest
    /\ request' = NoRequest
    /\ response' = NoResponse
    /\ before' = Snapshot(users, exercises)
    /\ UNCHANGED <<users, exercises, posts>>

Next ==
    \/ UserGet \/ UserPost \/ UserPut \/ UserDelete
    \/ ExerciseGet \/ ExercisePost \/ ExercisePut \/ ExerciseDelete
    \/ RequestDone

Spec == Init /\ [][Next]_vars

-----------------------------------------------------------------------------
(* The query of GET /user as a function of the parsed arguments and the     *)
(* table: user.py:72-99 applied to every argument record that passes the   *)
(* parser and the range check, next to the whole handler of GET /exercise. *)

\* parser.parse_args() of GET with user_limit in range(MAX_ITEMS_RETURNED + 1)
UserQueryArgs ==
    [user_id : 0..MaxUserId, user_name : {"", Name(1)}, user_mail : {"", Mail(1)},
     user_role : EnumValues(UserRole), user_offset : {0, MaxUserId},
     user_limit : 0..MAX_ITEMS_RETURNED]

\* the query and the response built from its selection
UserQuery ==
    /\ request = NoRequest
    /\ \E args \in UserQueryArgs :
          /\ request' = [resource |-> "user", method |-> "query",
                         cookies |-> None, args |-> args]
          /\ response' = Resp(200, "", "", UserGetSelection(args, users))
    /\ before' = Snapshot(users, exercises)
    /\ UNCHANGED <<users, exercises, posts>>

NextQuery == UserQuery \/ ExerciseGet \/ RequestDone

SpecQuery == Init /\ [][NextQuery]_vars

-----------------------------------------------------------------------------
(* Two POST /user requests handled by two workers at once.  Each request    *)
(* is at one of the handler's steps, and the steps of the two interleave   *)
(* in every order; a statement on the session, its commit included, is one *)
(* step.  posts[c] is the request of client c: its position in the         *)
(* handler, its cookie and parsed arguments, the count it read and its     *)
(* response.                                                               *)

Clients == {"first", "second"}

\* the mail each of the two requests submits; no record of a table has either
RaceMail(c) == IF c = "first" THEN "first@example.com" ELSE "second@example.com"

RaceNames == {Name(1), Name(MaxUserId + 1)}
RaceRoles == {UserRole["User"], UserRole["Admin"]}
RaceCookies == {None, Some(Token("valid", 1))}

\* args = parser.parse_args() of two requests with the same user_name
InitialPosts ==
    {[c \in Clients |->
         [pc |-> "role", cookies |-> k[c], counted |-> 0, response |-> NoResponse,
          args |-> [user_name |-> name, user_pass |-> Plain("secret"),
                    user_mail |-> RaceMail(c), user_role |-> role[c]]]] :
        name \in RaceNames, role \in [Clients -> RaceRoles],
        k \in [Clients -> RaceCookies]}

InitRace ==
    /\ users \in InitialUserTables
    /\ exercises = {}
    /\ request = NoRequest
    /\ response = NoResponse
    /\ before = Snapshot(users, exercises)
    /\ posts \in InitialPosts

\* the request of client c ends with the response
PostEnds(c, resp) ==
    posts' = [posts EXCEPT ![c].pc = "done", ![c].response = resp]

\* the test of the requested role, the cookie check and _authorize
PostRoleStep(c) ==
    LET p == posts[c]
        a == UserResource_authorize(Val(p.cookies), None, TRUE, users)
    IN /\ UNCHANGED users
       /\ IF ~HasMember(UserRole, "SAdmin")
          THEN PostEnds(c, Uncaught("AttributeError", ""))      \* UserRole.SAdmin
          ELSE IF p.args.user_role \notin {UserRole["SAdmin"], UserRole["Admin"]}
          THEN posts' = [posts EXCEPT ![c].pc = "count"]
          ELSE IF p.cookies = None
          THEN PostEnds(c, Resp(401, "Login required", "", {}))
          ELSE IF a = "False" THEN PostEnds(c, Resp(403, "No Access", a, {}))
          ELSE IF a # "True" THEN PostEnds(c, Uncaught(a, a))
          ELSE posts' = [posts EXCEPT ![c].pc = "count"]

\* select count() where user_name == args["user_name"], and the test of it
PostCountStep(c) ==
    LET n == Cardinality({r \in users : r.user_name = posts[c].args.user_name})
    IN /\ UNCHANGED users
       /\ IF n = 0
          THEN posts' = [posts EXCEPT ![c].pc = "insert", ![c].counted = n]
          ELSE posts' = [posts EXCEPT
                            ![c].pc = "done", ![c].counted = n,
                            ![c].response =
                                Resp(409, "A user with this name already exists",
                                     "", {})]

\* session.add(user), session.commit()
PostInsertStep(c) ==
    LET args == posts[c].args
        user == [user_id |-> NextUserId(users),
                 user_name |-> args.user_name,
                 user_pass |-> sha256(args.user_pass),
                 user_mail |-> args.user_mail,
                 user_role |-> args.user_role]
    IN IF \E r \in users : r.user_mail = args.user_mail
       THEN /\ UNCHANGED users                                  \* user_mail is unique
            /\ PostEnds(c, Uncaught("IntegrityError", ""))
       ELSE /\ users' = users \cup {user}
            /\ posts' = [posts EXCEPT ![c].pc = "reselect"]

\* select where user_name == args["user_name"], fetchone(), the 201 response
PostReselectStep(c) ==
    LET rows == {r \in users : r.user_name = posts[c].args.user_name}
        row == CHOOSE r \in rows : \A o \in rows : r.user_id <= o.user_id
    IN /\ UNCHANGED users
       /\ IF rows = {}
          THEN PostEnds(c, Uncaught("TypeError", ""))            \* row[0] on None
          ELSE PostEnds(c, Resp(201, "The user was created successfully", "",
                                {[user_id |-> row.user_id,
                                  user_name |-> row.user_name,
                                  user_mail |-> row.user_mail]}))

\* one worker runs its request up to the next statement on the session
UserPostStep ==
    \E c \in Clients :
       /\ posts[c].pc # "done"
       /\ CASE posts[c].pc = "role" -> PostRoleStep(c)
            [] posts[c].pc = "count" -> PostCountStep(c)
            [] posts[c].pc = "insert" -> PostInsertStep(c)
            [] posts[c].pc = "reselect" -> PostReselectStep(c)
       /\ UNCHANGED <<exercises, request, response, before>>

NextRace == UserPostStep

SpecRace == InitRace /\ [][NextRace]_vars

-----------------------------------------------------------------------------
(* The handled request, as the properties below read it *)

Handled == request # NoRequest
On(resource, methods) ==
    Handled /\ request.resource = resource /\ request.method \in methods
HasToken == Handled /\ request.cookies # None
TheToken == Val(request.cookies)

\* the request passed the parser and the range check of its handler
Validated == Handled /\ response.status # 400

\* the token verifies and its user_id is the id of a record with one of the roles
CallerRow == fetchone_user(before.users, TheToken.user_id)
CallerHasRole(roles) ==
    /\ HasToken /\ TheToken.kind = "valid"
    /\ CallerRow # None /\ Val(CallerRow).user_role \in roles
UnprivilegedRoles == {UserRole["User"]}
PrivilegedRoles == EnumValues(UserRole) \ UnprivilegedRoles

\* the token verifies and its user_id is the id of no record
CallerIsStale == HasToken /\ TheToken.kind = "valid" /\ CallerRow = None

Denied == response.status = 403 /\ response.message = "No Access" /\ response.exc = ""
LoginRequired ==
    response.status = 401 /\ response.message = "Login required" /\ response.exc = ""
StoreUnchanged == users = before.users /\ exercises = before.exercises

\* POST /user asks for an account with one of the roles
PostsRole(roles) ==
    /\ On("user", {"POST"}) /\ Validated
    /\ Val(request.args.user_role) \in roles

-----------------------------------------------------------------------------
(* Claims *)

\* C1: for a caller whose stored role is User and a target id other than the
\* caller's own, _authorize returns False for either value of change_admin, and
\* GET, PUT and DELETE on /user aimed at that id end with 403.
C1_OtherUserDenied ==
    (/\ On("user", {"GET", "PUT", "DELETE"}) /\ Validated
     /\ CallerHasRole(UnprivilegedRoles)
     /\ request.args.user_id # None
     /\ Val(request.args.user_id) # TheToken.user_id)
    => /\ \A change_admin \in BOOLEAN :
             UserResource_authorize(TheToken, request.args.user_id, change_admin,
                                    before.users) = "False"
       /\ Denied

\* C2: PUT /user from a caller whose stored role is User, on the caller's own
\* user_id and carrying a user_role, ends with 403 and leaves the stored role of
\* that user unchanged.
C2_NoSelfElevation ==
    (/\ On("user", {"PUT"}) /\ Validated
     /\ CallerHasRole(UnprivilegedRoles)
     /\ request.args.user_id = Some(TheToken.user_id)
     /\ request.args.user_role # None)
    => /\ Denied
       /\ fetchone_user(users, TheToken.user_id) = CallerRow

\* C3: for a caller whose token decodes to an existing user with stored role
\* Admin or SuperAdmin, _authorize returns True for every target (none included)
\* and for role changes, and no request of that caller on /user ends with 403.
C3_PrivilegedAllowed ==
    (/\ On("user", {"GET", "POST", "PUT", "DELETE"})
     /\ CallerHasRole(PrivilegedRoles))
    => /\ \A target \in Opt(UserIds), change_admin \in BOOLEAN :
             UserResource_authorize(TheToken, target, change_admin, before.users)
                 = "True"
       /\ response.status # 403

\* C4: a caller whose token decodes but whose user_id matches no record is denied
\* on both resources, a read of /exercise included: every request that consults
\* the decision ends with a denial response and not with a server error.
C4_StaleCallerDenied ==
    (/\ Validated /\ CallerIsStale
     /\ (On("user", {"POST"}) => PostsRole(PrivilegedRoles)))
    => /\ response.status \in {401, 403}
       /\ response.exc = ""

\* C5: a request whose token cookie fails verification (malformed, wrong
\* signature or expired) ends with the 'login required' 401 outcome of a request
\* without a cookie, never with 403 and never with an uncaught fault.
C5_BadTokenLoginRequired ==
    (/\ Validated /\ HasToken
     /\ TheToken.kind \in {"malformed", "wrong_signature", "expired"}
     /\ (On("user", {"POST"}) => PostsRole(PrivilegedRoles)))
    => LoginRequired

BadUserGetQuery(q) ==
    \/ q.user_role # None /\ Val(q.user_role) \notin {1, 2, 3}
    \/ q.user_limit # None
          /\ (Val(q.user_limit) < 0 \/ Val(q.user_limit) > MAX_ITEMS_RETURNED)

C7_NoUncaughtFault ==
    Handled
    => /\ response.exc = ""
       /\ response.status \in {200, 201, 400, 401, 403, 404, 409, 500}

\* C8: POST /user with user_role Admin or SuperAdmin ends with 401 without a
\* token and with 403 with the token of a User-role caller, adding no record in
\* both cases, and adds a record only for an existing privileged caller; POST
\* /user with user_role User is never answered 401 or 403, token or not.
C8_PrivilegedCreationGated ==
    /\ PostsRole(PrivilegedRoles)
       => /\ ~HasToken => (LoginRequired /\ StoreUnchanged)
          /\ CallerHasRole(UnprivilegedRoles) => (Denied /\ StoreUnchanged)
          /\ users # before.users => CallerHasRole(PrivilegedRoles)
    /\ PostsRole(UnprivilegedRoles) => response.status \notin {401, 403}

\* C9: POST, PUT and DELETE on /exercise change the exercise table only for a
\* caller whose stored role is Admin or SuperAdmin and are answered 403 for a
\* User-role caller; GET /exercise is allowed for every caller whose token
\* resolves to an existing user.
C9_ExerciseWritesPrivileged ==
    /\ (On("exercise", {"POST", "PUT", "DELETE"}) /\ Validated)
       => /\ exercises # before.exercises => CallerHasRole(PrivilegedRoles)
          /\ CallerHasRole(UnprivilegedRoles) => Denied
    /\ (On("exercise", {"GET"}) /\ CallerHasRole(EnumValues(UserRole)))
       => response.status = 200 /\ response.exc = ""

\* C10: POST /user with the name of a record in the table ends with 409 and
\* leaves the table unchanged; with a name not in the table it ends with 201 and
\* adds exactly one record, with the submitted name, mail and role and a user_id
\* no other record has.  (Stated for user_role User, which needs no access
\* check.)
C10_PostCreatesOrConflicts ==
    PostsRole(UnprivilegedRoles)
    => LET name == Val(request.args.user_name)
           added == users \ before.users
       IN IF \E r \in before.users : r.user_name = name
          THEN response.status = 409 /\ response.exc = "" /\ StoreUnchanged
          ELSE /\ response.status = 201 /\ response.exc = ""
               /\ before.users \subseteq users
               /\ Cardinality(added) = 1
               /\ \A r \in added :
                     /\ r.user_name = name
                     /\ r.user_mail = Val(request.args.user_mail)
                     /\ r.user_role = Val(request.args.user_role)
                     /\ \A o \in before.users : o.user_id # r.user_id

\* some record of the table other than the one with id `except` has the mail
MailTaken(U, mail, except) ==
    \E r \in U : r.user_mail = mail /\ r.user_id # except

\* C11: no two user records have the same user_mail, and a POST or PUT on /user
\* that would give a record the mail of another record ends with 409 and
\* changes nothing.  (POST is stated for user_role User, which needs no access
\* check, and PUT for a privileged caller and an existing target.)
C11_MailUniqueOrConflict ==
    /\ \A r1, r2 \in users : r1.user_mail = r2.user_mail => r1 = r2
    /\ (/\ PostsRole(UnprivilegedRoles)
        /\ MailTaken(before.users, Val(request.args.user_mail), 0))
       => response.status = 409 /\ response.exc = "" /\ StoreUnchanged
    /\ (/\ On("user", {"PUT"}) /\ Validated
        /\ CallerHasRole(PrivilegedRoles)
        /\ request.args.user_id # None /\ request.args.user_mail # None
        /\ fetchone_user(before.users, Val(request.args.user_id)) # None
        /\ MailTaken(before.users, Val(request.args.user_mail),
                     Val(request.args.user_id)))
       => response.status = 409 /\ response.exc = "" /\ StoreUnchanged

\* C12: a DELETE on /user by a privileged caller for the id X of a record other
\* than the caller's own ends with 200 and removes the record, and every DELETE
\* for X by that caller while X is absent ends with 404 and leaves the store
\* unchanged.  (The handler reads nothing but the request and the table, so
\* "after X was deleted and until it is recreated" is "while the table holds no
\* record with id X".)
C12_DeleteThenNotFound ==
    (/\ On("user", {"DELETE"}) /\ Validated
     /\ CallerHasRole(PrivilegedRoles)
     /\ Val(request.args.user_id) # TheToken.user_id)
    => LET X == Val(request.args.user_id)
           row == fetchone_user(before.users, X)
       IN IF row # None
          THEN /\ response.status = 200 /\ response.exc = ""
               /\ users = before.users \ {Val(row)}
               /\ exercises = before.exercises
          ELSE response.status = 404 /\ response.exc = "" /\ StoreUnchanged

\* C13: a request whose token verifies but names the id of no record (the state
\* of a caller who deleted their own account) is denied on every endpoint and
\* operation: it changes neither table and is not answered with 200 or 201.
\* (Neither _authorize keeps a history, so a token whose record was deleted and
\* a token whose id never had a record are the same input.)
C13_StaleTokenNeverServed ==
    (Handled /\ CallerIsStale)
    => response.status \notin {200, 201} /\ StoreUnchanged

\* the decision rules allow the caller to update the target: the caller is
\* privileged, or has role User, aims at the own record and names no role
PutAllowedByRules ==
    /\ On("user", {"PUT"}) /\ Validated
    /\ request.args.user_id # None
    /\ \/ CallerHasRole(PrivilegedRoles)
       \/ /\ CallerHasRole(UnprivilegedRoles)
          /\ Val(request.args.user_id) = TheToken.user_id
          /\ request.args.user_role = None

OwnOrAbsent(column) ==
    \/ request.args[column] = None
    \/ Val(request.args[column]) = Val(CallerRow)[column]

\* C16: a logged-in caller with role User whose GET on /user has no user_id and
\* filters only by the caller's own user_name, user_mail or user_role is
\* answered with 200, and a result filtered by the caller's name or mail
\* contains the caller's own record.
C16_OwnFilterServed ==
    (/\ On("user", {"GET"}) /\ Validated
     /\ CallerHasRole(UnprivilegedRoles)
     /\ request.args.user_id = None
     /\ request.args.user_offset = None /\ request.args.user_limit = None
     /\ OwnOrAbsent("user_name") /\ OwnOrAbsent("user_mail")
     /\ OwnOrAbsent("user_role"))
    => /\ response.status = 200 /\ response.exc = ""
       /\ (request.args.user_name # None \/ request.args.user_mail # None)
          => \E e \in response.data : e.user_id = TheToken.user_id

\* C18: a request that ends with 401 or 403 leaves the user table and the
\* exercise table exactly as they were: no handler inserts, updates or deletes
\* before the cookie check and _authorize both let the request through.
C18_RefusedChangesNothing ==
    (Handled /\ response.status \in {401, 403}) => StoreUnchanged

\* a refused write whose statement would have changed a table: a DELETE on
\* /user for an existing record answered 401 or 403
C18_Witness ==
    /\ On("user", {"DELETE"})
    /\ response.status \in {401, 403} /\ response.exc = ""
    /\ fetchone_user(before.users, Val(request.args.user_id)) # None
    /\ StoreUnchanged

\* the table holds no record with role Admin or SuperAdmin
NoPrivilegedRecord(U) == \A r \in U : r.user_role \in UnprivilegedRoles

\* C20: from a user table with no Admin or SuperAdmin record no request leads
\* to a table with one: every step that starts without a privileged record
\* ends without one.
C20_NoPrivilegeFromNothing ==
    [][NoPrivilegedRecord(users) => NoPrivilegedRecord(users')]_vars

\* a caller with role User asked POST /user for a privileged account while the
\* table, with room for the new record, held no privileged record
C20_Witness ==
    /\ PostsRole(PrivilegedRoles)
    /\ CallerHasRole(UnprivilegedRoles)
    /\ NoPrivilegedRecord(before.users)
    /\ ~\E r \in before.users : r.user_name = Val(request.args.user_name)
    /\ ~MailTaken(before.users, Val(request.args.user_mail), 0)
    /\ NextUserId(before.users) \in UserIds
    /\ NoPrivilegedRecord(users)

\* the columns an entry of the GET /user response may have
PublicUserColumns == {"user_id", "user_name", "user_mail", "user_role"}

\* C15: every entry of the response the query of GET /user builds has exactly
\* the fields user_id, user_name, user_mail and user_role: no entry carries the
\* user_pass column.
C15_NoCredentialListed ==
    On("user", {"query"})
    => \A e \in response.data : DOMAIN e = PublicUserColumns

\* a query that lists a record of the table
C15_Witness ==
    /\ On("user", {"query"})
    /\ \E e \in response.data :
          /\ DOMAIN e = PublicUserColumns
          /\ \E r \in users : r.user_id = e.user_id /\ r.user_pass # None

\* the entries of the GET /exercise response are no more than MAX_ITEMS_RETURNED
ExerciseListCapped ==
    (On("exercise", {"GET"}) /\ response.status = 200)
    => Cardinality(response.data) <= MAX_ITEMS_RETURNED

RaceOfUsersDone ==
    /\ posts # NoPosts
    /\ \A c \in Clients :
          /\ posts[c].pc = "done"
          /\ posts[c].args.user_role \in UnprivilegedRoles

\* C19: when two POST /user requests with the same user_name and different
\* mails have run with their steps interleaved, at most one has ended with 201,
\* the table holds at most one record of that name, and a request that did not
\* end with 201 ended with 409.
C19_OneCreatedOthersConflict ==
    RaceOfUsersDone
    => LET created == {c \in Clients : posts[c].response.status = 201}
           name == posts["first"].args.user_name
       IN /\ Cardinality(created) <= 1
          /\ Cardinality({r \in users : r.user_name = name}) <= 1
          /\ \A c \in Clients \ created :
                posts[c].response.status = 409 /\ posts[c].response.exc = ""

C22_DecisionFollowsStoredRole ==
    (/\ On("user", {"GET", "PUT", "DELETE"}) /\ Validated
     /\ CallerHasRole(EnumValues(UserRole))
     /\ request.args.user_id # None
     /\ Val(request.args.user_id) # TheToken.user_id)
    => IF Val(CallerRow).user_role \in UnprivilegedRoles
       THEN Denied /\ StoreUnchanged
       ELSE response.exc = "" /\ response.status \notin {401, 403}

====
